---- MODULE Spec2Model ----
(***************************************************************************)
(* Allusion: the ExifIO connector (src/backend/ExifIO.ts).                 *)
(*                                                                         *)
(* A JavaScript string is a sequence of one-character strings, so that     *)
(* split and join are computed and not assumed.  A metadata field value is *)
(* a record [t, items]: t is "list" for an array, "scalar" for a single    *)
(* value (items holds it), "absent" for undefined and "null" for null.  An *)
(* array element or scalar is a record [t, s]: t is "str" for a string,    *)
(* "num" for a number (s is its decimal string, what toString() gives),    *)
(* "null" or "undef" otherwise.                                            *)
(***************************************************************************)
EXTENDS Integers, Sequences, FiniteSets, TLC

VARIABLES
  hierarchicalSeparator,  \* ExifIO.hierarchicalSeparator
  localStorage,           \* localStorage item 'hierarchical-separator', or NoItem
  disk,                   \* the three metadata fields of the image file, as ExifTool holds them
  op,                     \* the last completed file call: "none", "readTags", "writeTags"
  ret,                    \* how the last file call ended: [error, value]
  splitWith,              \* the separator the last readTags call split with, or Unread
  lastWrite,              \* the last writeTags call: its argument, and the fields it handed
                          \* to ep.writeMetadata with the separator that joined them
  tags,                   \* the tag paths of each file of the library, as ExifTool holds them
  inFlight,               \* the calls that await their ep.writeMetadata
  done,                   \* the last call whose ep.writeMetadata resolved: the paths of the
                          \* files before, the files ExifTool updated, and how the call ended
  ep,                     \* the ExiftoolProcess: _open, and its open() and close() calls
                          \* that have not resolved
  reads,                  \* the readTags calls that await ep.readMetadata: the separator
                          \* each was called under
  invoked,                \* what held when ep.open() and ep.close() were last invoked, and
                          \* the separator the last resolved readTags was called under
  fileList,               \* FileStore.fileList: the client files shown, by id
  index,                  \* FileStore.index: file id to position in fileList, from 0
  selection,              \* FileStore.selection: client files [id, latest]
  isBroken,               \* the ids whose latest client file has isBroken set
  numUntaggedFiles,       \* FileStore.numUntaggedFiles
  numMissingFiles,        \* FileStore.numMissingFiles
  checking,               \* the updateFromBackend calls whose existence checks have not
                          \* ended: the client files each checks
  called,                 \* the last hideFile or decrementNumUntaggedFiles call, if no other
                          \* FileStore call followed: its name, whether it threw
  tagCollection,          \* a ClientTagCollection: autoSave and its observable fields
  saved                   \* the backend.saveTag calls of its reaction, and what caused the last

\* What the calls on one file, one at a time, leave alone.
library == <<tags, inFlight, done>>

\* The ExifTool process and the calls that await it.
process == <<ep, reads, invoked>>

\* The FileStore.
fileStore == <<fileList, index, selection, isBroken, numUntaggedFiles, numMissingFiles,
               checking, called>>

\* The ClientTagCollection and the backend it saves to.
collection == <<tagCollection, saved>>

\* The stores of the renderer, which the ExifIO calls leave alone.
stores == <<fileStore, collection>>

vars == <<hierarchicalSeparator, localStorage, disk, op, ret, splitWith, lastWrite,
          library, process, stores>>

-----------------------------------------------------------------------------
(* Bounds *)

\* The characters strings are made of; "|" is the default separator.
Chars == {"a", "|"}

\* The size of the metadata of one file, and of one writeTags argument, at most: the
\* number of its entries (strings or paths) plus the number of their characters.
MaxSize == 6

-----------------------------------------------------------------------------
(* Values *)

NoItem == <<"null">>          \* localStorage.getItem of a key that is not stored
Undefined == <<"undefined">>  \* JavaScript's undefined where a string is expected
Unread == <<"unread">>        \* the call did not read this.hierarchicalSeparator

Str(s) == [t |-> "str", s |-> s]
UndefElem == [t |-> "undef", s |-> <<>>]
List(items) == [t |-> "list", items |-> items]
Absent == [t |-> "absent", items |-> <<>>]
StrList(strs) == List([i \in 1..Len(strs) |-> Str(strs[i])])

\* The strings of exactly n characters.
StringsOfLen(n) == [1..n -> Chars]

\* The lists of exactly k strings holding exactly c characters together.
RECURSIVE StringLists(_, _)
StringLists(k, c) ==
  IF k = 0 THEN (IF c = 0 THEN {<<>>} ELSE {})
  ELSE UNION {{<<s>> \o l : s \in StringsOfLen(n), l \in StringLists(k - 1, c - n)} : n \in 0..c}

\* The entries of one file, in the order of its fields.
EntryLists ==
  UNION {StringLists(x[1], x[2]) : x \in {y \in (0..MaxSize) \X (0..MaxSize) : y[1] + y[2] <= MaxSize}}

\* A file's metadata when first met: a list of entries cut into the three fields,
\* the first i being HierarchicalSubject and the next j - i being Subject.
Fields(l, i, j) ==
  [HierarchicalSubject |-> StrList(SubSeq(l, 1, i)),
   Subject |-> StrList(SubSeq(l, i + 1, j)),
   Keywords |-> StrList(SubSeq(l, j + 1, Len(l)))]

\* The paths of exactly d segments holding c characters, a separator counted as one.
RECURSIVE PathsOf(_, _)
PathsOf(d, c) ==
  IF d = 1 THEN {<<s>> : s \in StringsOfLen(c)}
  ELSE UNION {{<<s>> \o p : s \in StringsOfLen(n), p \in PathsOf(d - 1, c - n - 1)} : n \in 0..(c - 1)}

PathsOfWeight(c) == UNION {PathsOf(d, c) : d \in 1..(c + 1)}

\* The lists of exactly k paths weighing exactly c together.
RECURSIVE PathListsOf(_, _)
PathListsOf(k, c) ==
  IF k = 0 THEN (IF c = 0 THEN {<<>>} ELSE {})
  ELSE UNION {{<<p>> \o l : p \in PathsOfWeight(n), l \in PathListsOf(k - 1, c - n)} : n \in 0..c}

\* The arguments writeTags is called with: lists of non-empty paths (string[][]).
PathLists ==
  UNION {PathListsOf(x[1], x[2]) : x \in {y \in (0..MaxSize) \X (0..MaxSize) : y[1] + y[2] <= MaxSize}}

\* The values setHierarchicalSeparator is called with.
Separators == {<<>>} \cup {<<c>> : c \in Chars}

-----------------------------------------------------------------------------
(* JavaScript's string and array methods, as ExifIO uses them *)

\* sep occurs in s at position i.
OccursAt(s, sep, i) == i + Len(sep) - 1 <= Len(s) /\ SubSeq(s, i, i + Len(sep) - 1) = sep

\* String.prototype.split with a non-empty separator: scan from i, the segment began at from.
RECURSIVE SplitFrom(_, _, _, _)
SplitFrom(s, sep, i, from) ==
  IF i + Len(sep) - 1 > Len(s) THEN <<SubSeq(s, from, Len(s))>>
  ELSE IF OccursAt(s, sep, i)
       THEN <<SubSeq(s, from, i - 1)>> \o SplitFrom(s, sep, i + Len(sep), i + Len(sep))
       ELSE SplitFrom(s, sep, i + 1, from)

\* String.prototype.split: the empty separator cuts between all characters, and
\* "".split("") is the empty array.
split(s, sep) ==
  IF sep = <<>> THEN [i \in 1..Len(s) |-> <<s[i]>>] ELSE SplitFrom(s, sep, 1, 1)

\* Array.prototype.join.
RECURSIVE join(_, _)
join(segments, sep) ==
  IF Len(segments) = 0 THEN <<>>
  ELSE IF Len(segments) = 1 THEN segments[1]
  ELSE segments[1] \o sep \o join(Tail(segments), sep)

\* h[h.length - 1]: undefined for the empty array.
LastOf(h) == IF Len(h) = 0 THEN Undefined ELSE h[Len(h)]

\* Array.from(new Set(list)): the first occurrence of every value, in order.
ArrayFromSet(list) ==
  LET F[i \in 0..Len(list)] ==
        IF i = 0 THEN <<>>
        ELSE IF \E j \in 1..(i - 1) : list[j] = list[i] THEN F[i - 1]
        ELSE Append(F[i - 1], list[i])
  IN F[Len(list)]

-----------------------------------------------------------------------------
(* ExifIO.convertMetadataToHierarchy *)

\* val.toString() can be called: val is neither null nor undefined.
HasToString(e) == e.t \in {"str", "num"}

\* Mutant: a value that is no array is kept whatever its string, the empty one too.
parseExifFieldAsStringKeepEmpty(val) ==
  IF val.t = "list" THEN val.items
  ELSE IF val.t = "scalar" /\ HasToString(val.items[1]) THEN <<Str(val.items[1].s)>>
  ELSE <<>>

\* Mutant: a value that is no array is dropped.
parseExifFieldAsStringArraysOnly(val) ==
  IF val.t = "list" THEN val.items ELSE <<>>

\* Array.isArray(val) ? val : val?.toString() ? [val.toString()] : []
parseExifFieldAsString(val) ==
  IF val.t = "list" THEN val.items
  ELSE IF val.t = "scalar" /\ HasToString(val.items[1]) /\ val.items[1].s # <<>>
       THEN <<Str(val.items[1].s)>>
  ELSE <<>>

\* tagHierarchy.map((h) => h.toString().split(separator))
splitHierarchy(tagHierarchy, separator) ==
  [i \in 1..Len(tagHierarchy) |-> split(tagHierarchy[i].s, separator)]

\* Mutant: the keywords are taken before the subject.
allPlainTagsKeywordsFirst(subject, keywords) ==
  ArrayFromSet([i \in 1..Len(keywords) |-> keywords[i].s] \o [i \in 1..Len(subject) |-> subject[i].s])

\* Mutant: the Set is taken of the values as delivered, a number and the string
\* that writes it being two members.
allPlainTagsOfValues(subject, keywords) ==
  LET members == ArrayFromSet(subject \o keywords)
  IN [i \in 1..Len(members) |-> members[i].s]

\* Array.from(new Set([...subject.map(toString), ...keywords.map(toString)]))
allPlainTags(subject, keywords) ==
  ArrayFromSet([i \in 1..Len(subject) |-> subject[i].s] \o [i \in 1..Len(keywords) |-> keywords[i].s])

\* Mutant: a plain tag is compared with the first segment, h[0], of every path.
filteredTagsFirstSegment(plainTags, hierarchy) ==
  LET keep(tag) ==
        \A i \in 1..Len(hierarchy) :
          (IF Len(hierarchy[i]) = 0 THEN Undefined ELSE hierarchy[i][1]) # tag
  IN SelectSeq(plainTags, keep)

\* Mutant: no plain tag is filtered out.
filteredTagsKeepAll(plainTags, hierarchy) == plainTags

\* allPlainTags.filter((tag) => splitHierarchy.every((h) => h[h.length - 1] !== tag))
filteredTags(plainTags, hierarchy) ==
  LET keep(tag) == \A i \in 1..Len(hierarchy) : LastOf(hierarchy[i]) # tag
  IN SelectSeq(plainTags, keep)

\* Mutant: the plain tags come before the hierarchical paths.
mergedHierarchyFlatFirst(hierarchy, plainTags) ==
  [i \in 1..Len(plainTags) |-> <<plainTags[i]>>] \o hierarchy

\* [...splitHierarchy, ...filteredTags.map((t) => [t])]
mergedHierarchy(hierarchy, plainTags) ==
  hierarchy \o [i \in 1..Len(plainTags) |-> <<plainTags[i]>>]

\* The whole function: a TypeError where toString() is called on null or undefined.
convertMetadataToHierarchy(entry, separator) ==
  LET tagHierarchy == parseExifFieldAsString(entry.HierarchicalSubject)
      subject == parseExifFieldAsString(entry.Subject)
      keywords == parseExifFieldAsString(entry.Keywords)
      all == tagHierarchy \o subject \o keywords
  IN IF \E i \in 1..Len(all) : ~HasToString(all[i])
     THEN [error |-> "TypeError", value |-> <<>>]
     ELSE [error |-> "none",
           value |-> mergedHierarchy(
                       splitHierarchy(tagHierarchy, separator),
                       filteredTags(allPlainTags(subject, keywords),
                                    splitHierarchy(tagHierarchy, separator)))]

-----------------------------------------------------------------------------
(* ExifIO.writeTags: the fields handed to ep.writeMetadata *)

\* Mutant: the first segment, entry[0], is taken as the name.
leafNamesFirstSegment(tagNameHierarchy) ==
  [i \in 1..Len(tagNameHierarchy) |->
     IF Len(tagNameHierarchy[i]) = 0 THEN UndefElem ELSE Str(tagNameHierarchy[i][1])]

\* tagNameHierarchy.map((entry) => entry[entry.length - 1])
leafNames(tagNameHierarchy) ==
  [i \in 1..Len(tagNameHierarchy) |->
     IF Len(tagNameHierarchy[i]) = 0 THEN UndefElem ELSE Str(LastOf(tagNameHierarchy[i]))]

\* Mutant: the segments are joined by the default separator, not the configured one.
joinedHierarchyDefaultSeparator(tagNameHierarchy, separator) ==
  [i \in 1..Len(tagNameHierarchy) |-> Str(join(tagNameHierarchy[i], <<"|">>))]

\* tagNameHierarchy.map((hierarchy) => hierarchy.join(this.hierarchicalSeparator))
joinedHierarchy(tagNameHierarchy, separator) ==
  [i \in 1..Len(tagNameHierarchy) |-> Str(join(tagNameHierarchy[i], separator))]

writePayload(tagNameHierarchy, separator) ==
  [HierarchicalSubject |-> List(joinedHierarchy(tagNameHierarchy, separator)),
   Subject |-> List(leafNames(tagNameHierarchy)),
   Keywords |-> List(leafNames(tagNameHierarchy))]

NoFields == [HierarchicalSubject |-> Absent, Subject |-> Absent, Keywords |-> Absent]

-----------------------------------------------------------------------------
(* The files of the library and the calls that write to them *)

\* The files addTag, removeTag and replaceTag are given.
Files == {"f1", "f2"}

\* The tag paths they are given: the tag "a", and the tag "a" under it, which
\* has the first as its proper prefix and the leaf name of the first as its own.
TagPaths == {<<<<"a">>>>, <<<<"a">>, <<"a">>>>}

NoData == [overwrite |-> FALSE, minus |-> {}, plus |-> {}]

\* No call has resolved yet.
NoCall ==
  [call |-> [name |-> "none", files |-> {}, given |-> <<>>, data |-> NoData],
   before |-> [f \in Files |-> {}], updated |-> {}, logged |-> FALSE, error |-> "none"]

\* A library nothing is written to.
NoCalls ==
  /\ tags = [f \in Files |-> {}]
  /\ inFlight = {}
  /\ done = NoCall

\* const ep = new exiftool.ExiftoolProcess(exiftoolPath): not open, nothing pending.
NewProcess == [open |-> FALSE, opening |-> 0, closing |-> 0]

NothingInvoked == [open |-> "never", close |-> "never", calledWith |-> Unread]

\* No initialize, close or readTags call has been made.
NoProcessCalls ==
  /\ ep = NewProcess
  /\ reads = {}
  /\ invoked = NothingInvoked

\* The last call of a FileStore method that can throw, hideFile or
\* decrementNumUntaggedFiles, and whether it threw: none, or another call since.
NoStoreCall == [name |-> "none", threw |-> FALSE]

\* new FileStore(backend, rootStore): no files, nothing selected, counters 0.
NewFileStore ==
  /\ fileList = <<>>
  /\ index = <<>>
  /\ selection = {}
  /\ isBroken = {}
  /\ numUntaggedFiles = 0
  /\ numMissingFiles = 0
  /\ checking = <<>>
  /\ called = NoStoreCall

\* new ClientTagCollection(store): autoSave = true, name and description '',
\* no sub-collections, no tags.
NewTagCollection ==
  [autoSave |-> TRUE, name |-> "", description |-> "", subCollections |-> <<>>, tags |-> <<>>]

NothingSaved == [count |-> 0, by |-> "none"]

NoStores ==
  /\ NewFileStore
  /\ tagCollection = NewTagCollection
  /\ saved = NothingSaved

-----------------------------------------------------------------------------
(* The ExifIO object and one image file *)

Ok == [error |-> "none", value |-> <<>>]

\* A file without tags.
Untagged(fields) ==
  /\ fields.HierarchicalSubject.items = <<>>
  /\ fields.Subject.items = <<>>
  /\ fields.Keywords.items = <<>>

\* constructor: localStorage.getItem('hierarchical-separator') || '|'
StoredOrDefault(item) == IF item = NoItem \/ item = <<>> THEN <<"|">> ELSE item

Init ==
  /\ localStorage \in {NoItem} \cup Separators
  /\ hierarchicalSeparator = StoredOrDefault(localStorage)
  /\ \E l \in EntryLists : \E i \in 0..Len(l) : \E j \in i..Len(l) : disk = Fields(l, i, j)
  /\ op = "none"
  /\ ret = Ok
  /\ splitWith = Unread
  /\ lastWrite = [paths |-> <<>>, sent |-> FALSE, joinedWith |-> Unread, payload |-> NoFields]
  /\ NoCalls
  /\ NoProcessCalls
  /\ NoStores

setHierarchicalSeparator(val) ==
  /\ hierarchicalSeparator' = val
  /\ localStorage' = val
  /\ UNCHANGED <<disk, op, ret, splitWith, lastWrite, library, process, stores>>

\* Mutant: a read that fails gives the empty list of paths.
readTagsEmptyOnFailure(delivered) ==
  /\ op' = "readTags"
  /\ ret' = IF delivered THEN convertMetadataToHierarchy(disk, hierarchicalSeparator) ELSE Ok
  /\ splitWith' = IF delivered THEN hierarchicalSeparator ELSE Unread
  /\ UNCHANGED <<hierarchicalSeparator, localStorage, disk, lastWrite, library, process, stores>>

\* readTags: the read fails (metadata.error, or no entry) or its entry is converted
\* with the separator of the moment.
readTags(delivered) ==
  /\ op' = "readTags"
  /\ ret' = IF delivered THEN convertMetadataToHierarchy(disk, hierarchicalSeparator)
            ELSE [error |-> "Error", value |-> <<>>]
  /\ splitWith' = IF delivered THEN hierarchicalSeparator ELSE Unread
  /\ UNCHANGED <<hierarchicalSeparator, localStorage, disk, lastWrite, library, process, stores>>

\* Mutant: writeTags without its early return for the empty list.
writeTagsUnguarded(tagNameHierarchy) ==
  /\ op' = "writeTags"
  /\ ret' = Ok
  /\ lastWrite' = [paths |-> tagNameHierarchy, sent |-> TRUE,
                   joinedWith |-> hierarchicalSeparator,
                   payload |-> writePayload(tagNameHierarchy, hierarchicalSeparator)]
  /\ disk' = writePayload(tagNameHierarchy, hierarchicalSeparator)
  /\ splitWith' = Unread
  /\ UNCHANGED <<hierarchicalSeparator, localStorage, library, process, stores>>

\* writeTags: nothing for the empty list; otherwise one ep.writeMetadata call that
\* overwrites the three fields.  What the tool answers decides a console.error only.
writeTags(tagNameHierarchy) ==
  /\ op' = "writeTags"
  /\ ret' = Ok
  /\ IF Len(tagNameHierarchy) = 0
     THEN /\ lastWrite' = [paths |-> tagNameHierarchy, sent |-> FALSE,
                           joinedWith |-> Unread, payload |-> NoFields]
          /\ disk' = disk
     ELSE /\ lastWrite' = [paths |-> tagNameHierarchy, sent |-> TRUE,
                           joinedWith |-> hierarchicalSeparator,
                           payload |-> writePayload(tagNameHierarchy, hierarchicalSeparator)]
          /\ disk' = writePayload(tagNameHierarchy, hierarchicalSeparator)
  /\ splitWith' = Unread
  /\ UNCHANGED <<hierarchicalSeparator, localStorage, library, process, stores>>

\* What the application writes: as its first call, the empty list or, to a file it
\* finds untagged, any list of paths; later, the tags it has just read.
Requests ==
  (IF op = "none" THEN {<<>>} ELSE {})
    \cup (IF op = "none" /\ Untagged(disk) THEN PathLists ELSE {})
    \cup (IF op = "readTags" /\ ret.error = "none" /\ ret.value \in PathLists
          THEN {ret.value} ELSE {})

SetSeparator == \E val \in Separators : setHierarchicalSeparator(val)

ReadTags == \E delivered \in BOOLEAN : readTags(delivered)

WriteTags == \E tagNameHierarchy \in Requests : writeTags(tagNameHierarchy)

Next == SetSeparator \/ ReadTags \/ WriteTags

Spec == Init /\ [][Next]_vars

-----------------------------------------------------------------------------
(* The values ep.readMetadata can deliver for a field: absent, null, one string or
   number, or an array of strings, numbers, null and undefined *)

\* The characters of delivered values: the default separator and two digits.
RawChars == {"|", "0", "1"}

\* The size of one delivered entry at most: the number of its values plus the
\* number of their characters.
MaxRawSize == 4

Num(s) == [t |-> "num", s |-> s]
NullElem == [t |-> "null", s |-> <<>>]
Null == [t |-> "null", items |-> <<>>]
Scalar(e) == [t |-> "scalar", items |-> <<e>>]

\* Number.prototype.toString of a natural number: digits without a leading zero.
IsNumeral(s) == /\ Len(s) >= 1
                /\ \A i \in 1..Len(s) : s[i] \in {"0", "1"}
                /\ (Len(s) > 1 => s[1] # "0")

\* The values of n characters: strings, the numbers written so, null and undefined.
RawElements(n) ==
  {Str(s) : s \in [1..n -> RawChars]}
    \cup {Num(s) : s \in {x \in [1..n -> RawChars] : IsNumeral(x)}}
    \cup (IF n = 0 THEN {NullElem, UndefElem} ELSE {})

\* The lists of exactly k values holding exactly c characters together.
RECURSIVE RawLists(_, _)
RawLists(k, c) ==
  IF k = 0 THEN (IF c = 0 THEN {<<>>} ELSE {})
  ELSE UNION {{<<e>> \o l : e \in RawElements(n), l \in RawLists(k - 1, c - n)} : n \in 0..c}

RawEntryLists ==
  UNION {RawLists(x[1], x[2]) :
           x \in {y \in (0..MaxRawSize) \X (0..MaxRawSize) : y[1] + y[2] <= MaxRawSize}}

\* The ways a field can hold the values l: as an array; one string or number also
\* as itself; no value also as an absent field or as null.
RawShapes(l) ==
  {List(l)}
    \cup (IF Len(l) = 1 /\ HasToString(l[1]) THEN {Scalar(l[1])} ELSE {})
    \cup (IF Len(l) = 0 THEN {Absent, Null} ELSE {})

\* A file as it is delivered to readTags, all shapes of values allowed.
InitRaw ==
  /\ localStorage = NoItem
  /\ hierarchicalSeparator = StoredOrDefault(localStorage)
  /\ \E l \in RawEntryLists : \E i \in 0..Len(l) : \E j \in i..Len(l) :
       \E h \in RawShapes(SubSeq(l, 1, i)) :
         \E s \in RawShapes(SubSeq(l, i + 1, j)) :
           \E k \in RawShapes(SubSeq(l, j + 1, Len(l))) :
             disk = [HierarchicalSubject |-> h, Subject |-> s, Keywords |-> k]
  /\ op = "none"
  /\ ret = Ok
  /\ splitWith = Unread
  /\ lastWrite = [paths |-> <<>>, sent |-> FALSE, joinedWith |-> Unread, payload |-> NoFields]
  /\ NoCalls
  /\ NoProcessCalls
  /\ NoStores

NextRaw == ReadTags

SpecRaw == InitRaw /\ [][NextRaw]_vars

-----------------------------------------------------------------------------
(* ExifIO.writeTags, addTag, removeTag and replaceTag on the files of the library:
   a call hands one command to ep.writeMetadata and awaits it; when the command
   resolves, the call looks at the number of updated files and ends *)

exifIO == <<hierarchicalSeparator, localStorage, disk, op, ret, splitWith, lastWrite>>

\* What ExifTool makes of the paths of a file: the three fields overwritten by
\* writeTags, or the paths of 'MyHS-' taken out and then those of 'MyHS+' put in.
Applied(paths, data) ==
  IF data.overwrite THEN data.plus ELSE (paths \ data.minus) \cup data.plus

\* { HierarchicalSubject: ..., Subject: subject, Keywords: subject }
writeTagsData(tagNameHierarchy) ==
  [overwrite |-> TRUE, minus |-> {},
   plus |-> {tagNameHierarchy[i] : i \in 1..Len(tagNameHierarchy)}]

\* Mutant: each segment of the path is added as a tag of its own.
addTagDataSegments(tagHierarchy) ==
  [overwrite |-> FALSE, minus |-> {},
   plus |-> {<<tagHierarchy[i]>> : i \in 1..Len(tagHierarchy)}]

\* { 'MyHS+': tagHierarchy }
addTagData(tagHierarchy) == [overwrite |-> FALSE, minus |-> {}, plus |-> {tagHierarchy}]

\* Mutant: each segment of the path is removed as a tag of its own.
removeTagDataSegments(tagHierarchy) ==
  [overwrite |-> FALSE, plus |-> {},
   minus |-> {<<tagHierarchy[i]>> : i \in 1..Len(tagHierarchy)}]

\* { 'MyHS-': tagHierarchy }
removeTagData(tagHierarchy) == [overwrite |-> FALSE, minus |-> {tagHierarchy}, plus |-> {}]

\* Mutant: the two paths change places.
replaceTagDataSwapped(oldTagHierarchy, newTagHierarchy) ==
  [overwrite |-> FALSE, minus |-> {newTagHierarchy}, plus |-> {oldTagHierarchy}]

\* { 'MyHS-': oldTagHierarchy, 'MyHS+': newTagHierarchy }
replaceTagData(oldTagHierarchy, newTagHierarchy) ==
  [overwrite |-> FALSE, minus |-> {oldTagHierarchy}, plus |-> {newTagHierarchy}]

\* A call at its await: what it was given and what it handed to ep.writeMetadata.
Awaiting(name, files, given, data) ==
  [name |-> name, files |-> files, given |-> given, data |-> data]

\* Mutant: the caller starts a write whatever is in flight.
CallerMayWriteAlways(files) == TRUE

\* The caller starts a write on files that no write in flight targets.
CallerMayWrite(files) == \A call \in inFlight : call.files \cap files = {}

\* writeTags of a non-empty list, up to its await.
writeTagsAwaits(filepath, tagNameHierarchy) ==
  /\ inFlight' = inFlight \cup
       {Awaiting("writeTags", {filepath}, <<tagNameHierarchy>>, writeTagsData(tagNameHierarchy))}
  /\ UNCHANGED <<tags, done, exifIO, process, stores>>

addTag(files, tagHierarchy) ==
  /\ inFlight' = inFlight \cup
       {Awaiting("addTag", files, <<tagHierarchy>>, addTagData(tagHierarchy))}
  /\ UNCHANGED <<tags, done, exifIO, process, stores>>

removeTag(files, tagHierarchy) ==
  /\ inFlight' = inFlight \cup
       {Awaiting("removeTag", files, <<tagHierarchy>>, removeTagData(tagHierarchy))}
  /\ UNCHANGED <<tags, done, exifIO, process, stores>>

\* Mutant: the removal and the addition are two commands, not awaited in turn.
replaceTagTwoWrites(files, oldTagHierarchy, newTagHierarchy) ==
  /\ inFlight' = inFlight \cup
       {Awaiting("replaceTag", files, <<oldTagHierarchy, newTagHierarchy>>,
                 removeTagData(oldTagHierarchy)),
        Awaiting("replaceTag", files, <<oldTagHierarchy, newTagHierarchy>>,
                 addTagData(newTagHierarchy))}
  /\ UNCHANGED <<tags, done, exifIO, process, stores>>

replaceTag(files, oldTagHierarchy, newTagHierarchy) ==
  /\ inFlight' = inFlight \cup
       {Awaiting("replaceTag", files, <<oldTagHierarchy, newTagHierarchy>>,
                 replaceTagData(oldTagHierarchy, newTagHierarchy))}
  /\ UNCHANGED <<tags, done, exifIO, process, stores>>

\* The number the call looks for in the answer: 1 in writeTags, files.length else.
Expected(call) == IF call.name = "writeTags" THEN 1 ELSE Cardinality(call.files)

\* Mutant: an answer with another number of updated files is thrown as an error.
OutcomeThrown(call, updated) ==
  [logged |-> FALSE,
   error |-> IF Cardinality(updated) # Expected(call) THEN "Error" ELSE "none"]

\* if (!res.error?.endsWith(`${n} image files updated`)) console.error(...)
Outcome(call, updated) ==
  [logged |-> Cardinality(updated) # Expected(call), error |-> "none"]

\* Mutant: when a file of the batch was not updated, the others are put back.
writeMetadataResolvesAllOrNothing(call, updated) ==
  /\ tags' = [f \in Files |-> IF updated = call.files THEN Applied(tags[f], call.data)
                               ELSE tags[f]]
  /\ inFlight' = inFlight \ {call}
  /\ done' = [call |-> call, before |-> tags, updated |-> updated,
              logged |-> Outcome(call, updated).logged,
              error |-> Outcome(call, updated).error]
  /\ UNCHANGED <<exifIO, process, stores>>

\* ep.writeMetadata resolves: ExifTool has updated some of the files, the call
\* logs an answer it did not expect and ends.
writeMetadataResolves(call, updated) ==
  /\ tags' = [f \in Files |-> IF f \in updated THEN Applied(tags[f], call.data) ELSE tags[f]]
  /\ inFlight' = inFlight \ {call}
  /\ done' = [call |-> call, before |-> tags, updated |-> updated,
              logged |-> Outcome(call, updated).logged,
              error |-> Outcome(call, updated).error]
  /\ UNCHANGED <<exifIO, process, stores>>

\* The lists writeTags is given here.
TagPathLists == {<<p>> : p \in TagPaths} \cup {<<<<<<"a">>>>, <<<<"a">>, <<"a">>>>>>}

InitLibrary ==
  /\ localStorage = NoItem
  /\ hierarchicalSeparator = StoredOrDefault(localStorage)
  /\ disk = NoFields
  /\ op = "none"
  /\ ret = Ok
  /\ splitWith = Unread
  /\ lastWrite = [paths |-> <<>>, sent |-> FALSE, joinedWith |-> Unread, payload |-> NoFields]
  /\ tags \in [Files -> SUBSET TagPaths]
  /\ inFlight = {}
  /\ done = NoCall
  /\ NoProcessCalls
  /\ NoStores

WriteTagsAwaits ==
  \E filepath \in Files : \E tagNameHierarchy \in TagPathLists :
    CallerMayWrite({filepath}) /\ writeTagsAwaits(filepath, tagNameHierarchy)

AddTag ==
  \E files \in SUBSET Files \ {{}} : \E tagHierarchy \in TagPaths :
    CallerMayWrite(files) /\ addTag(files, tagHierarchy)

RemoveTag ==
  \E files \in SUBSET Files \ {{}} : \E tagHierarchy \in TagPaths :
    CallerMayWrite(files) /\ removeTag(files, tagHierarchy)

ReplaceTag ==
  \E files \in SUBSET Files \ {{}} : \E oldTagHierarchy \in TagPaths :
    \E newTagHierarchy \in TagPaths :
      CallerMayWrite(files) /\ replaceTag(files, oldTagHierarchy, newTagHierarchy)

WriteMetadataResolves ==
  \E call \in inFlight : \E updated \in SUBSET call.files :
    writeMetadataResolves(call, updated)

NextLibrary == WriteTagsAwaits \/ AddTag \/ RemoveTag \/ ReplaceTag \/ WriteMetadataResolves

SpecLibrary == InitLibrary /\ [][NextLibrary]_vars

-----------------------------------------------------------------------------
(* The ExifIO object over its life: constructor, setHierarchicalSeparator,
   initialize and close around ep.open() and ep.close(), and readTags around
   its await of ep.readMetadata *)

\* The calls of one kind that await the process at one time, at most.
MaxCalls == 2

\* The file that is read: one hierarchicalSubject entry, "a|a".
OneEntry == Fields(<<<<"a", "|", "a">>>>, 1, 1)

\* The program is started again: a new process object and a new ExifIO, which
\* takes the separator from localStorage.
constructor ==
  /\ hierarchicalSeparator' = StoredOrDefault(localStorage)
  /\ ep' = NewProcess
  /\ reads' = {}
  /\ invoked' = NothingInvoked
  /\ op' = "none"
  /\ ret' = Ok
  /\ splitWith' = Unread
  /\ UNCHANGED <<localStorage, disk, lastWrite, library, stores>>

\* initialize up to its await: if (ep._open) return this; ... ep.open()
initialize ==
  /\ ep.opening < MaxCalls
  /\ IF ep.open
     THEN UNCHANGED <<ep, invoked>>
     ELSE /\ ep' = [ep EXCEPT !.opening = @ + 1]
          /\ invoked' = [invoked EXCEPT !.open = IF ep.opening > 0 THEN "opening" ELSE "closed"]
  /\ UNCHANGED <<exifIO, library, reads, stores>>

\* ep.open() resolves: the process runs and _open is true.
openResolves ==
  /\ ep.opening > 0
  /\ ep' = [ep EXCEPT !.opening = @ - 1, !.open = TRUE]
  /\ UNCHANGED <<exifIO, library, reads, invoked, stores>>

\* close up to its await: if (ep._open) { ... ep.close() }
close ==
  /\ ep.closing < MaxCalls
  /\ IF ep.open
     THEN /\ ep' = [ep EXCEPT !.closing = @ + 1]
          /\ invoked' = [invoked EXCEPT !.close = "open"]
     ELSE UNCHANGED <<ep, invoked>>
  /\ UNCHANGED <<exifIO, library, reads, stores>>

\* ep.close() resolves: the process has ended and _open is false.
closeResolves ==
  /\ ep.closing > 0
  /\ ep' = [ep EXCEPT !.closing = @ - 1, !.open = FALSE]
  /\ UNCHANGED <<exifIO, library, reads, invoked, stores>>

\* readTags up to its await of ep.readMetadata.
readTagsAwaits ==
  /\ Cardinality(reads) < MaxCalls
  /\ reads' = reads \cup {hierarchicalSeparator}
  /\ UNCHANGED <<exifIO, library, ep, invoked, stores>>

\* ep.readMetadata resolves: readTags throws, or converts the entry with
\* this.hierarchicalSeparator as it is now.
readMetadataResolves(calledWith, delivered) ==
  /\ reads' = reads \ {calledWith}
  /\ invoked' = [invoked EXCEPT !.calledWith = calledWith]
  /\ op' = "readTags"
  /\ ret' = IF delivered THEN convertMetadataToHierarchy(disk, hierarchicalSeparator)
            ELSE [error |-> "Error", value |-> <<>>]
  /\ splitWith' = IF delivered THEN hierarchicalSeparator ELSE Unread
  /\ UNCHANGED <<hierarchicalSeparator, localStorage, disk, lastWrite, library, ep, stores>>

InitProcess ==
  /\ localStorage \in {NoItem} \cup Separators
  /\ hierarchicalSeparator = StoredOrDefault(localStorage)
  /\ disk = OneEntry
  /\ op = "none"
  /\ ret = Ok
  /\ splitWith = Unread
  /\ lastWrite = [paths |-> <<>>, sent |-> FALSE, joinedWith |-> Unread, payload |-> NoFields]
  /\ NoCalls
  /\ NoProcessCalls
  /\ NoStores

ReadMetadataResolves ==
  \E calledWith \in reads : \E delivered \in BOOLEAN : readMetadataResolves(calledWith, delivered)

NextProcess ==
  \/ constructor
  \/ SetSeparator
  \/ initialize
  \/ openResolves
  \/ close
  \/ closeResolves
  \/ readTagsAwaits
  \/ ReadMetadataResolves

SpecProcess == InitProcess /\ [][NextProcess]_vars

-----------------------------------------------------------------------------
(* The FileStore (src/frontend/stores/FileStore.ts): fileList, index, selection
   and the counters, under updateFromBackend, fetchMissingFiles, clearFileList,
   select, hideFile and the counter methods.  A client file is a record
   [id, latest]: latest holds for the object that was constructed last for its
   id, and the earlier objects of an id are taken as one.  A file of the
   database has tags or has none by its id.  numTotalFiles and
   fileListLastModified, which the store writes and never reads, are left out. *)

\* The number the counters are capped at.
MaxCount == 2

\* The ids of the files of the database, and the ones that have no tags.
FileIds == {1, 2}
Tagless == {1}

\* What the backend hands over: the files of a query, by id, ids being unique.
BackendLists == {<<>>, <<1>>, <<2>>, <<1, 2>>}

\* uiStore.showsAllContent, uiStore.showsUntaggedContent, or neither.
Views == {"all", "untagged", "query"}

\* file.id of the files of a list.
IdsOf(list) == {list[i].id : i \in 1..Len(list)}

\* The elements of a list.
FilesOf(list) == {list[i] : i \in 1..Len(list)}

\* The client file, once a new ClientFile has been constructed for the ids of
\* created.
Aged(file, created) ==
  IF file.id \in created THEN [file EXCEPT !.latest = FALSE] ELSE file

\* FileStore.get: the file the index points at, or nothing (the empty set).
get(list, idx, id) ==
  IF id \in DOMAIN idx /\ idx[id] < Len(list) THEN {list[idx[id] + 1]} ELSE {}

\* FileStore.filesFromBackend: per file of the backend, the client file that
\* get finds, or a new ClientFile.
filesFromBackend(list, idx, backendFiles) ==
  [i \in 1..Len(backendFiles) |->
     IF get(list, idx, backendFiles[i]) # {}
     THEN CHOOSE file \in get(list, idx, backendFiles[i]) : TRUE
     ELSE [id |-> backendFiles[i], latest |-> TRUE]]

\* The ids filesFromBackend constructs a new ClientFile for.
Constructed(list, idx, backendFiles) ==
  {backendFiles[i] : i \in {k \in 1..Len(backendFiles) : get(list, idx, backendFiles[k]) = {}}}

\* FileStore.cleanFileSelection: the selected files whose id the index has.
cleanFileSelection(selected, idx) == {file \in selected : file.id \in DOMAIN idx}

\* The index with index.set(file.id, i) for every file of the list, the keys it
\* had being kept.
rebuiltIndexNotCleared(idx, list) ==
  [id \in DOMAIN idx \cup IdsOf(list) |->
     IF id \in IdsOf(list) THEN (CHOOSE i \in 1..Len(list) : list[i].id = id) - 1
     ELSE idx[id]]

\* The index after index.clear() and index.set(file.id, i) for every file
\* of the list.
rebuiltIndex(idx, list) ==
  [id \in IdsOf(list) |-> (CHOOSE i \in 1..Len(list) : list[i].id = id) - 1]

\* FileStore.updateFileListState: the index and the counters derived from
\* fileList.
updateFileListState(list, idx, broken, view, untagged) ==
  LET missingFiles == Cardinality({i \in 1..Len(list) : list[i] \in broken})
      untaggedFiles == Cardinality({i \in 1..Len(list) :
                                      list[i] \notin broken /\ list[i].id \in Tagless})
  IN [index |-> rebuiltIndex(idx, list),
      numMissingFiles |-> missingFiles,
      numUntaggedFiles |-> IF view = "all" THEN untaggedFiles
                           ELSE IF view = "untagged" THEN Len(list) ELSE untagged]

\* The counter decremented whatever it is.
decrementNumUntaggedFilesUnguarded(n) == [threw |-> FALSE, n |-> n - 1]

\* FileStore.decrementNumUntaggedFiles: throws at 0.
decrementNumUntaggedFiles(n) ==
  IF n = 0 THEN [threw |-> TRUE, n |-> n] ELSE [threw |-> FALSE, n |-> n - 1]

\* The pending fetches with a new ClientFile constructed for the ids of created.
AgedFetches(fetches, created) ==
  [k \in 1..Len(fetches) |->
     [fetches[k] EXCEPT !.files = [i \in 1..Len(@) |-> Aged(@[i], created)],
                        !.unchecked = {Aged(file, created) : file \in @}]]

\* The sequence without its element k.
Without(seq, k) == SubSeq(seq, 1, k - 1) \o SubSeq(seq, k + 1, Len(seq))

StoreCall(name, threw) == [name |-> name, threw |-> threw]

\* The client files something refers to: the file list, the selection or a
\* pending fetch.
Referenced(list, selected, fetches) ==
  FilesOf(list) \cup selected
    \cup UNION {FilesOf(fetches[k].files) \cup fetches[k].unchecked : k \in 1..Len(fetches)}

\* isBroken of the client files that are referred to: the flag of a client file
\* nothing refers to is read by nothing.
Broken(broken, list, selected, fetches) == broken \cap Referenced(list, selected, fetches)

\* updateFromBackend(backendFiles), called by fetchAllFiles, fetchFilesByQuery and
\* fetchFilesByIDs when the backend has answered: up to the existence checks.  A
\* list of files is taken when the existence checks of no other fetch are pending.
updateFromBackend(backendFiles, view) ==
  /\ called' = NoStoreCall
  /\ IF backendFiles = <<>>
     THEN /\ selection' = {}
          /\ index' = <<>>
          /\ fileList' = <<>>
          /\ UNCHANGED <<numUntaggedFiles, numMissingFiles, checking>>
          /\ isBroken' = Broken(isBroken, fileList', selection', checking')
     ELSE /\ checking = <<>>
          /\ LET newClientFiles == filesFromBackend(fileList, index, backendFiles)
                 created == Constructed(fileList, index, backendFiles)
                 broken == {Aged(file, created) : file \in isBroken}
                 state == updateFileListState(newClientFiles, index, broken, view,
                                              numUntaggedFiles)
             IN /\ fileList' = newClientFiles
                /\ selection' = cleanFileSelection({Aged(file, created) : file \in selection},
                                                   index)
                /\ index' = state.index
                /\ numMissingFiles' = state.numMissingFiles
                /\ numUntaggedFiles' = state.numUntaggedFiles
                /\ checking' = Append(AgedFetches(checking, created),
                                      [of |-> "updateFromBackend",
                                       files |-> <<>>,
                                       unchecked |-> FilesOf(newClientFiles)])
                /\ isBroken' = Broken(broken, fileList', selection', checking')
  /\ UNCHANGED <<exifIO, library, process, collection>>

\* One existence check of a pending fetch ends:
\* clientFile.setBroken(!(await fse.pathExists(clientFile.absolutePath))).
pathExists(k, file, exists) ==
  /\ k \in 1..Len(checking)
  /\ file \in checking[k].unchecked
  /\ checking' = [checking EXCEPT ![k].unchecked = @ \ {file}]
  /\ UNCHANGED <<fileList, index, selection, numUntaggedFiles,
                 numMissingFiles, called>>
  /\ isBroken' = Broken(IF exists THEN isBroken \ {file} ELSE isBroken \cup {file},
                        fileList', selection', checking')
  /\ UNCHANGED <<exifIO, library, process, collection>>

\* The existence checks of an updateFromBackend call have all ended:
\* .then(() => this.updateFileListState()).
existenceChecked(k, view) ==
  /\ k \in 1..Len(checking)
  /\ checking[k].of = "updateFromBackend"
  /\ checking[k].unchecked = {}
  /\ LET state == updateFileListState(fileList, index, isBroken, view,
                                      numUntaggedFiles)
     IN /\ index' = state.index
        /\ numMissingFiles' = state.numMissingFiles
        /\ numUntaggedFiles' = state.numUntaggedFiles
  /\ checking' = Without(checking, k)
  /\ called' = NoStoreCall
  /\ UNCHANGED <<fileList, selection>>
  /\ isBroken' = Broken(isBroken, fileList', selection', checking')
  /\ UNCHANGED <<exifIO, library, process, collection>>

\* fetchMissingFiles, when the backend has answered: up to the existence checks.
fetchMissingFiles(backendFiles) ==
  /\ checking = <<>>
  /\ LET newClientFiles == filesFromBackend(fileList, index, backendFiles)
         created == Constructed(fileList, index, backendFiles)
     IN /\ fileList' = [i \in 1..Len(fileList) |-> Aged(fileList[i], created)]
        /\ selection' = {Aged(file, created) : file \in selection}
        /\ checking' = Append(AgedFetches(checking, created),
                              [of |-> "fetchMissingFiles",
                               files |-> newClientFiles,
                               unchecked |-> FilesOf(newClientFiles)])
        /\ isBroken' = Broken({Aged(file, created) : file \in isBroken},
                              fileList', selection', checking')
  /\ called' = NoStoreCall
  /\ UNCHANGED <<index, numUntaggedFiles, numMissingFiles>>
  /\ UNCHANGED <<exifIO, library, process, collection>>

\* The existence checks of a fetchMissingFiles call have all ended: the missing
\* files become the file list.
missingFilesFetched(k) ==
  /\ k \in 1..Len(checking)
  /\ checking[k].of = "fetchMissingFiles"
  /\ checking[k].unchecked = {}
  /\ LET newClientFiles == checking[k].files
         missingClientFiles == SelectSeq(newClientFiles, LAMBDA file : file \in isBroken)
         idx == rebuiltIndex(index, missingClientFiles)
     IN /\ fileList' = missingClientFiles
        /\ numMissingFiles' = Len(missingClientFiles)
        /\ index' = idx
        /\ selection' = cleanFileSelection(selection, idx)
  /\ checking' = Without(checking, k)
  /\ called' = NoStoreCall
  /\ UNCHANGED <<numUntaggedFiles>>
  /\ isBroken' = Broken(isBroken, fileList', selection', checking')
  /\ UNCHANGED <<exifIO, library, process, collection>>

\* clearFileList().
clearFileList ==
  /\ selection' = {}
  /\ index' = <<>>
  /\ fileList' = <<>>
  /\ called' = NoStoreCall
  /\ UNCHANGED <<numUntaggedFiles, numMissingFiles, checking>>
  /\ isBroken' = Broken(isBroken, fileList', selection', checking')
  /\ UNCHANGED <<exifIO, library, process, collection>>

\* select(file, clear) on a file of the file list.
select(file, clear) ==
  /\ file \in FilesOf(fileList)
  /\ selection' = (IF clear THEN {} ELSE selection) \cup {file}
  /\ called' = NoStoreCall
  /\ UNCHANGED <<fileList, index, numUntaggedFiles, numMissingFiles, checking>>
  /\ isBroken' = Broken(isBroken, fileList', selection', checking')
  /\ UNCHANGED <<exifIO, library, process, collection>>

\* hideFile(file) on a file that is shown or selected.
hideFile(file) ==
  /\ file \in FilesOf(fileList) \cup selection
  /\ numMissingFiles < MaxCount
  /\ selection' = selection \ {file}
  /\ numMissingFiles' = numMissingFiles + 1
  /\ LET decremented == IF file.id \in Tagless
                        THEN decrementNumUntaggedFiles(numUntaggedFiles)
                        ELSE [threw |-> FALSE, n |-> numUntaggedFiles]
     IN /\ numUntaggedFiles' = decremented.n
        /\ called' = StoreCall("hideFile", decremented.threw)
  /\ UNCHANGED <<fileList, index, checking>>
  /\ isBroken' = isBroken \cup {file}
  /\ UNCHANGED <<exifIO, library, process, collection>>

\* incrementNumUntaggedFiles().
incrementNumUntaggedFiles ==
  /\ numUntaggedFiles < MaxCount
  /\ numUntaggedFiles' = numUntaggedFiles + 1
  /\ called' = NoStoreCall
  /\ UNCHANGED <<fileList, index, selection, isBroken, numMissingFiles,
                 checking>>
  /\ UNCHANGED <<exifIO, library, process, collection>>

\* decrementNumUntaggedFiles() as a call of its own.
DecrementNumUntaggedFiles ==
  /\ numUntaggedFiles' = decrementNumUntaggedFiles(numUntaggedFiles).n
  /\ called' = StoreCall("decrementNumUntaggedFiles",
                         decrementNumUntaggedFiles(numUntaggedFiles).threw)
  /\ UNCHANGED <<fileList, index, selection, isBroken, numMissingFiles,
                 checking>>
  /\ UNCHANGED <<exifIO, library, process, collection>>

ClientFiles == [id : FileIds, latest : BOOLEAN]

InitStore ==
  /\ hierarchicalSeparator = <<"|">>
  /\ localStorage = NoItem
  /\ disk = NoFields
  /\ op = "none"
  /\ ret = Ok
  /\ splitWith = Unread
  /\ lastWrite = [paths |-> <<>>, sent |-> FALSE, joinedWith |-> Unread, payload |-> NoFields]
  /\ NoCalls
  /\ NoProcessCalls
  /\ NoStores

UpdateFromBackend == \E backendFiles \in BackendLists, view \in Views :
                       updateFromBackend(backendFiles, view)

PathExists == \E k \in DOMAIN checking, file \in ClientFiles, exists \in BOOLEAN :
                pathExists(k, file, exists)

ExistenceChecked == \E k \in DOMAIN checking, view \in Views : existenceChecked(k, view)

FetchMissingFiles == \E backendFiles \in BackendLists : fetchMissingFiles(backendFiles)

MissingFilesFetched == \E k \in DOMAIN checking : missingFilesFetched(k)

Select == \E file \in ClientFiles, clear \in BOOLEAN : select(file, clear)

HideFile == \E file \in ClientFiles : hideFile(file)

NextStore ==
  \/ UpdateFromBackend
  \/ PathExists
  \/ ExistenceChecked
  \/ FetchMissingFiles
  \/ MissingFilesFetched
  \/ clearFileList
  \/ Select
  \/ HideFile
  \/ incrementNumUntaggedFiles
  \/ DecrementNumUntaggedFiles

SpecStore == InitStore /\ [][NextStore]_vars

-----------------------------------------------------------------------------
(* ClientTagCollection (src/renderer/entities/TagCollection.ts): the observable
   fields name, description, subCollections and tags, the flag autoSave, and the
   saveHandler reaction, which MobX runs when an observable field has changed:
   after the assignment when the assignment is made outside of an action, and
   when the outermost action ends when it is made inside one. *)

\* The ids an array holds at most, and the backend.saveTag calls counted.
MaxIds == 2
MaxSaves == 2

Names == {"", "a", "b"}
Descriptions == {"", "d"}
TagIds == {1}

\* The arrays of ids the backend or an edit hands over.
IdLists == {<<>>, <<1>>}

\* What the backend hands to updateFromBackend (id and dateAdded are not observable).
BackendTagCollections ==
  [name : Names, description : Descriptions, subCollections : IdLists, tags : IdLists]

\* serialize(), less id and dateAdded: what the reaction observes.
serialize(c) ==
  [name |-> c.name, description |-> c.description,
   subCollections |-> c.subCollections, tags |-> c.tags]

\* The effect of the saveHandler reaction: backend.saveTag under autoSave.
saveHandler(c, sv, by) ==
  IF c.autoSave THEN [count |-> sv.count + 1, by |-> by] ELSE sv

\* The reaction after the fields of before have become the fields of now: it runs
\* with the collection as it is when MobX runs it.
reaction(before, now, whenRun, sv, by) ==
  IF serialize(now) # serialize(before) THEN saveHandler(whenRun, sv, by) ELSE sv

\* ClientTagCollection.updateFromBackend(backendTagCollection), called inside of
\* an action or outside of one.
ClientTagCollection_updateFromBackend(backendTagCollection, inAction) ==
  /\ Len(tagCollection.subCollections) + Len(backendTagCollection.subCollections) <= MaxIds
  /\ Len(tagCollection.tags) + Len(backendTagCollection.tags) <= MaxIds
  /\ saved.count < MaxSaves
  /\ LET off == [tagCollection EXCEPT !.autoSave = FALSE]
         updated == [off EXCEPT !.name = backendTagCollection.name,
                                !.description = backendTagCollection.description,
                                !.subCollections = @ \o backendTagCollection.subCollections,
                                !.tags = @ \o backendTagCollection.tags]
         on == [updated EXCEPT !.autoSave = TRUE]
     IN /\ tagCollection' = on
        /\ saved' = reaction(tagCollection, updated, IF inAction THEN on ELSE updated,
                             saved, "updateFromBackend")
  /\ UNCHANGED <<exifIO, library, process, fileStore>>

\* A local edit: collection.name = val.
assignName(val) ==
  /\ saved.count < MaxSaves
  /\ tagCollection' = [tagCollection EXCEPT !.name = val]
  /\ saved' = reaction(tagCollection, tagCollection', tagCollection', saved, "edit")
  /\ UNCHANGED <<exifIO, library, process, fileStore>>

\* A local edit: collection.description = val.
assignDescription(val) ==
  /\ saved.count < MaxSaves
  /\ tagCollection' = [tagCollection EXCEPT !.description = val]
  /\ saved' = reaction(tagCollection, tagCollection', tagCollection', saved, "edit")
  /\ UNCHANGED <<exifIO, library, process, fileStore>>

\* A local edit: collection.tags.push(id).
pushTag(id) ==
  /\ saved.count < MaxSaves
  /\ Len(tagCollection.tags) < MaxIds
  /\ tagCollection' = [tagCollection EXCEPT !.tags = Append(@, id)]
  /\ saved' = reaction(tagCollection, tagCollection', tagCollection', saved, "edit")
  /\ UNCHANGED <<exifIO, library, process, fileStore>>

\* A local edit: collection.subCollections.push(id).
pushSubCollection(id) ==
  /\ saved.count < MaxSaves
  /\ Len(tagCollection.subCollections) < MaxIds
  /\ tagCollection' = [tagCollection EXCEPT !.subCollections = Append(@, id)]
  /\ saved' = reaction(tagCollection, tagCollection', tagCollection', saved, "edit")
  /\ UNCHANGED <<exifIO, library, process, fileStore>>

InitCollection == InitStore

UpdateFromBackendTagCollection ==
  \E backendTagCollection \in BackendTagCollections, inAction \in BOOLEAN :
    ClientTagCollection_updateFromBackend(backendTagCollection, inAction)

AssignName == \E val \in Names : assignName(val)

AssignDescription == \E val \in Descriptions : assignDescription(val)

PushTag == \E id \in TagIds : pushTag(id)

PushSubCollection == \E id \in TagIds : pushSubCollection(id)

LocalEdit == AssignName \/ AssignDescription \/ PushTag \/ PushSubCollection

NextCollection ==
  \/ UpdateFromBackendTagCollection
  \/ AssignName
  \/ AssignDescription
  \/ PushTag
  \/ PushSubCollection

SpecCollection == InitCollection /\ [][NextCollection]_vars

-----------------------------------------------------------------------------
(* What the claims are stated with *)

\* The strings of a list field.
Strs(field) == [i \in 1..Len(field.items) |-> field.items[i].s]

Range(seq) == {seq[i] : i \in 1..Len(seq)}

\* The last readTags call returned a result: it normalized disk with splitWith.
Normalized == op = "readTags" /\ ret.error = "none"

\* The last writeTags call was given a non-empty list.
Serialized == op = "writeTags" /\ lastWrite.paths # <<>>

\* The names in subject or keywords.
FlatNames == Range(Strs(disk.Subject)) \cup Range(Strs(disk.Keywords))

\* The last segments of the split hierarchicalSubject entries.
LeafNames == {LastOf(split(h, splitWith)) : h \in Range(Strs(disk.HierarchicalSubject))}

\* The positions of the result after one path per hierarchicalSubject entry.
FlatPart == (Len(disk.HierarchicalSubject.items) + 1)..Len(ret.value)

\* sep is a substring of s (the empty string is one of every string).
Contains(s, sep) == \E i \in 0..(Len(s) - Len(sep)) : SubSeq(s, i + 1, i + Len(sep)) = sep

\* Where segment i begins in the segments joined by sep, less one.
Offset(segments, sep, i) ==
  LET F[k \in 1..i] == IF k = 1 THEN 0 ELSE F[k - 1] + Len(segments[k - 1]) + Len(sep)
  IN F[i]

\* s is the segments in order with sep between every two of them, and nothing else.
IsJoined(s, segments, sep) ==
  LET n == Len(segments)
  IN IF n = 0 THEN s = <<>>
     ELSE /\ Len(s) = Offset(segments, sep, n) + Len(segments[n])
          /\ \A i \in 1..n :
               LET o == Offset(segments, sep, i)
               IN /\ SubSeq(s, o + 1, o + Len(segments[i])) = segments[i]
                  /\ i < n => SubSeq(s, o + Len(segments[i]) + 1,
                                     o + Len(segments[i]) + Len(sep)) = sep

\* path is s cut at every separator: a separator of one character, or the empty
\* separator, which cuts s into its characters.
IsSplit(path, s, sep) ==
  /\ IsJoined(s, path, sep)
  /\ IF sep = <<>> THEN \A i \in 1..Len(path) : Len(path[i]) = 1
     ELSE Len(path) >= 1 /\ \A i \in 1..Len(path) : ~Contains(path[i], sep)

\* Paths of non-empty segments that do not contain the separator.
WellFormedPaths(paths, sep) ==
  \A i \in 1..Len(paths) :
    /\ Len(paths[i]) >= 1
    /\ \A j \in 1..Len(paths[i]) : paths[i][j] # <<>> /\ ~Contains(paths[i][j], sep)

\* Raw fields written with a non-empty separator between non-empty segments, and
\* flat names that are non-empty and hold no separator.
WellFormedFields(fields, sep) ==
  /\ sep # <<>>
  /\ \A h \in Range(Strs(fields.HierarchicalSubject)) :
       \E path \in {split(h, sep)} : WellFormedPaths(<<path>>, sep)
  /\ \A name \in Range(Strs(fields.Subject)) \cup Range(Strs(fields.Keywords)) :
       name # <<>> /\ ~Contains(name, sep)

\* The first position of x in seq.
FirstIndex(seq, x) == CHOOSE k \in 1..Len(seq) : seq[k] = x /\ \A m \in 1..(k - 1) : seq[m] # x

-----------------------------------------------------------------------------
(* C1 *)

-----------------------------------------------------------------------------
(* C2 *)

\* C2: reading back what writeTags wrote for a non-empty list of paths of non-empty
\* segments without the separator, with the separator unchanged, returns that list.
C2_RoundTrip ==
  ( /\ Normalized
    /\ lastWrite.sent
    /\ disk = lastWrite.payload
    /\ splitWith = lastWrite.joinedWith
    /\ WellFormedPaths(lastWrite.paths, splitWith) )
  => ret.value = lastWrite.paths

\* A path of two segments and a path of one segment came back.
C2_Witness ==
  /\ Normalized /\ lastWrite.sent /\ disk = lastWrite.payload
  /\ splitWith = lastWrite.joinedWith
  /\ WellFormedPaths(lastWrite.paths, splitWith)
  /\ \E i, j \in 1..Len(lastWrite.paths) :
       Len(lastWrite.paths[i]) = 2 /\ Len(lastWrite.paths[j]) = 1
  /\ ret.value = lastWrite.paths

-----------------------------------------------------------------------------
(* C3 *)

\* C3: a non-empty result normalized from well-formed fields, serialized and
\* normalized again with the same separator, is the same list of paths.
C3_Idempotence ==
  (Normalized /\ WellFormedFields(disk, splitWith) /\ ret.value # <<>>)
  => convertMetadataToHierarchy(writePayload(ret.value, splitWith), splitWith)
       = [error |-> "none", value |-> ret.value]

\* The result holds a path of two segments and a single-segment path that came
\* from subject or keywords only.
C3_Witness ==
  /\ Normalized /\ WellFormedFields(disk, splitWith)
  /\ \E i \in 1..Len(ret.value) : Len(ret.value[i]) = 2
  /\ FlatPart # {}

-----------------------------------------------------------------------------
(* C4 *)

\* C4: a writeTags call with the empty list hands nothing to the writer and leaves
\* the fields of the file as they were.
C4_EmptyWriteIsNoOp ==
  [][(op' = "writeTags" /\ lastWrite'.paths = <<>>) => (~lastWrite'.sent /\ disk' = disk)]_vars

\* writeTags was called with the empty list on a file that has tags.
C4_Witness == op = "writeTags" /\ lastWrite.paths = <<>> /\ ~Untagged(disk)

-----------------------------------------------------------------------------
(* C5 *)

\* C5: without hierarchicalSubject entries the result is one single-segment path per
\* distinct name of subject and keywords, each once, in the order of their first
\* occurrence in subject followed by keywords.
C5_FlatNameUnion ==
  (Normalized /\ disk.HierarchicalSubject.items = <<>>) =>
    LET flat == Strs(disk.Subject) \o Strs(disk.Keywords)
        R == ret.value
    IN /\ \A i \in 1..Len(R) : Len(R[i]) = 1
       /\ {R[i][1] : i \in 1..Len(R)} = Range(flat)
       /\ \A i, j \in 1..Len(R) : i < j => FirstIndex(flat, R[i][1]) < FirstIndex(flat, R[j][1])

\* Two subject names, and a keyword that repeats the second of them.
C5_Witness ==
  /\ Normalized /\ disk.HierarchicalSubject.items = <<>>
  /\ Len(disk.Subject.items) = 2 /\ Len(disk.Keywords.items) = 1
  /\ disk.Keywords.items[1] = disk.Subject.items[2]
  /\ disk.Subject.items[1] # disk.Subject.items[2]
  /\ Len(ret.value) = 2

-----------------------------------------------------------------------------
(* C6 *)

-----------------------------------------------------------------------------
(* C7 *)

\* C7: for a non-empty list the writer is handed, path by path, the segments joined
\* by the separator as HierarchicalSubject and the last segment as Subject, and
\* Keywords equal to Subject.
C7_FieldShaping ==
  Serialized =>
    LET P == lastWrite.paths
        W == lastWrite.payload
    IN /\ lastWrite.sent
       /\ W.HierarchicalSubject.t = "list" /\ W.Subject.t = "list"
       /\ Len(W.HierarchicalSubject.items) = Len(P)
       /\ Len(W.Subject.items) = Len(P)
       /\ W.Keywords = W.Subject
       /\ \A i \in 1..Len(P) :
            /\ W.HierarchicalSubject.items[i].t = "str"
            /\ IsJoined(W.HierarchicalSubject.items[i].s, P[i], lastWrite.joinedWith)
            /\ W.Subject.items[i] = Str(P[i][Len(P[i])])

\* Two paths were written, the first of two segments that differ.
C7_Witness ==
  /\ Serialized /\ lastWrite.sent
  /\ Len(lastWrite.paths) = 2
  /\ Len(lastWrite.paths[1]) = 2
  /\ lastWrite.paths[1][1] # lastWrite.paths[1][2]
  /\ lastWrite.joinedWith # <<>>

-----------------------------------------------------------------------------
(* C8 *)

\* C8: every path of a result is non-empty and has no empty segment.
C8_PathWellFormedness ==
  Normalized =>
    \A i \in 1..Len(ret.value) :
      Len(ret.value[i]) >= 1 /\ \A j \in 1..Len(ret.value[i]) : ret.value[i][j] # <<>>

-----------------------------------------------------------------------------
(* C9 *)

\* C9: readTags on a delivered entry fails with InvalidInput when the separator it
\* splits with is the empty string.
C9_EmptySeparatorRejected ==
  (op = "readTags" /\ splitWith = <<>>) => ret.error = "InvalidInput"

-----------------------------------------------------------------------------
(* C10 *)

\* C10: a writeTags call that joins with the empty string as separator fails with
\* InvalidInput and hands nothing to the writer.
C10_EmptySeparatorRejected ==
  (op = "writeTags" /\ lastWrite.joinedWith = <<>>)
  => (ret.error = "InvalidInput" /\ ~lastWrite.sent)

-----------------------------------------------------------------------------
(* Field values of every shape (SpecRaw) *)

\* The last readTags call was delivered the entry and converted it.
Converted == op = "readTags" /\ splitWith # Unread

\* A field without a usable value: absent, null, the empty string, the empty array.
EmptyValue(val) ==
  \/ val.t \in {"absent", "null"}
  \/ val.t = "list" /\ val.items = <<>>
  \/ val.t = "scalar" /\ val.items[1] = Str(<<>>)

\* C11 as stated: normalize never fails: whatever the three fields hold (absent,
\* null, an empty string, an empty list, a scalar, a list, a list with null or
\* undefined members), readTags returns a result.
C11_NeverFails == Converted => ret.error = "none"

\* C12: when hierarchicalSubject, subject and keywords are all absent or empty,
\* the result is the empty sequence.
C12_AllEmptyGivesEmpty ==
  (/\ Converted
   /\ EmptyValue(disk.HierarchicalSubject)
   /\ EmptyValue(disk.Subject)
   /\ EmptyValue(disk.Keywords))
  => ret = [error |-> "none", value |-> <<>>]

C12_Witness ==
  /\ Converted
  /\ disk = [HierarchicalSubject |-> Scalar(Str(<<>>)), Subject |-> Null,
             Keywords |-> List(<<>>)]
  /\ ret.value = <<>>

\* The field with a single non-empty string replaced by the list of that string.
AsList(val) ==
  IF val.t = "scalar" /\ val.items[1].t = "str" /\ val.items[1].s # <<>>
  THEN List(val.items) ELSE val

\* C13: scalar coercion: a field holding the single non-empty string s gives the
\* result the one-element list [s] gives, for each of the three fields.
C13_ScalarAsOneElementList ==
  Converted =>
    \A h \in {disk.HierarchicalSubject, AsList(disk.HierarchicalSubject)} :
      \A s \in {disk.Subject, AsList(disk.Subject)} :
        \A k \in {disk.Keywords, AsList(disk.Keywords)} :
          ret = convertMetadataToHierarchy(
                  [HierarchicalSubject |-> h, Subject |-> s, Keywords |-> k], splitWith)

C13_Witness ==
  /\ Converted
  /\ disk.HierarchicalSubject = Scalar(Str(<<"1", "|", "0">>))
  /\ ret.value = <<<<<<"1">>, <<"0">>>>>>

\* The value with every number replaced by the string of its decimal digits.
Stringified(val) ==
  [t |-> val.t,
   items |-> [i \in 1..Len(val.items) |->
                IF val.items[i].t = "num" THEN Str(val.items[i].s) ELSE val.items[i]]]

\* The numbers a field holds.
NumbersOf(val) == {e \in Range(val.items) : e.t = "num"}

\* C14: numeric coercion: a number n, as a field value or as a list element, zero
\* too, is treated as the string of its digits and is not discarded: the result
\* is the one of the entry with the strings in place of the numbers (so a numeric
\* flat name is deduplicated and leaf-filtered against the equal string), a number
\* in hierarchicalSubject has its path, and a flat number is a path of its own
\* or the leaf of one.
C14_NumericCoercion ==
  (Converted /\ ret.error = "none") =>
    /\ ret = convertMetadataToHierarchy(
               [HierarchicalSubject |-> Stringified(disk.HierarchicalSubject),
                Subject |-> Stringified(disk.Subject),
                Keywords |-> Stringified(disk.Keywords)], splitWith)
    /\ \A n \in NumbersOf(disk.HierarchicalSubject) : split(n.s, splitWith) \in Range(ret.value)
    /\ \A n \in NumbersOf(disk.Subject) \cup NumbersOf(disk.Keywords) :
         /\ \E p \in Range(ret.value) : LastOf(p) = n.s
         /\ Cardinality({i \in 1..Len(ret.value) : ret.value[i] = <<n.s>>}) <= 1

C14_Witness ==
  /\ Converted
  /\ disk = [HierarchicalSubject |-> Scalar(Num(<<"0">>)),
             Subject |-> List(<<Num(<<"0">>)>>), Keywords |-> Absent]
  /\ ret.value = <<<<<<"0">>>>>>

\* Two flat names, the number 1 and the string "1", give one path.
C14_DeduplicatedAgainstString ==
  /\ Converted
  /\ disk = [HierarchicalSubject |-> Absent,
             Subject |-> List(<<Num(<<"1">>)>>), Keywords |-> List(<<Str(<<"1">>)>>)]
  /\ ret.value = <<<<<<"1">>>>>>

-----------------------------------------------------------------------------
(* Incremental edits of the files of the library (SpecLibrary) *)

\* The last resolved call is a call of the method.
Resolved(name) == done.call.name = name

\* C15: Replace(Pold, Pnew) on the paths of a file gives (paths minus {Pold})
\* union {Pnew}: afterwards Pnew is there, and Pold is not unless it is Pnew,
\* also when Pnew has the leaf name of Pold.
C15_ReplaceResult ==
  Resolved("replaceTag") =>
    \A f \in done.updated :
      /\ tags[f] = (done.before[f] \ {done.call.given[1]}) \cup {done.call.given[2]}
      /\ done.call.given[2] \in tags[f]
      /\ done.call.given[1] # done.call.given[2] => done.call.given[1] \notin tags[f]

\* Replace([a], [a, a]) on {[a]} gives {[a, a]}.
C15_Witness ==
  /\ Resolved("replaceTag")
  /\ done.call.given = <<<<<<"a">>>>, <<<<"a">>, <<"a">>>>>>
  /\ "f1" \in done.updated
  /\ done.before["f1"] = {<<<<"a">>>>}
  /\ tags["f1"] = {<<<<"a">>, <<"a">>>>}

\* C16: Replace is one unit: a replaceTag call has exactly one command in
\* flight, carrying both the removal of the old path and the addition of the
\* new one, and when it has resolved each file has both applied or neither.
C16_ReplaceIsOneWrite ==
  /\ \A call \in inFlight :
       call.name = "replaceTag" =>
         /\ call.data.minus = {call.given[1]}
         /\ call.data.plus = {call.given[2]}
         /\ \A other \in inFlight :
              (other.name = "replaceTag" /\ other.files = call.files) => other = call
  /\ Resolved("replaceTag") =>
       \A f \in Files :
         \/ tags[f] = done.before[f]
         \/ tags[f] = (done.before[f] \ {done.call.given[1]}) \cup {done.call.given[2]}

\* A replaceTag call on two files, ExifTool updating one: that file has lost the
\* old path and got the new one, the other has kept the old and not got the new.
C16_Witness ==
  /\ Resolved("replaceTag")
  /\ done.call.files = {"f1", "f2"}
  /\ done.call.given = <<<<<<"a">>>>, <<<<"a">>, <<"a">>>>>>
  /\ done.updated = {"f1"}
  /\ done.before = [f \in Files |-> {<<<<"a">>>>}]
  /\ tags = [f \in Files |-> IF f = "f1" THEN {<<<<"a">>, <<"a">>>>} ELSE {<<<<"a">>>>}]

\* C17: Remove is not cascading: Remove(P) takes out the path equal to P only;
\* every other path of the file stays, the paths P is a proper prefix of too.
C17_RemoveExactPathOnly ==
  Resolved("removeTag") =>
    \A f \in Files :
      tags[f] = IF f \in done.updated THEN done.before[f] \ {done.call.given[1]}
                ELSE done.before[f]

\* Remove([a]) on {[a], [a, a]} leaves {[a, a]}.
C17_Witness ==
  /\ Resolved("removeTag")
  /\ done.call.given = <<<<<<"a">>>>>>
  /\ "f1" \in done.updated
  /\ done.before["f1"] = {<<<<"a">>>>, <<<<"a">>, <<"a">>>>}
  /\ tags["f1"] = {<<<<"a">>, <<"a">>>>}

\* C18: Add is idempotent: Add(P) on paths that hold P already leaves them as
\* they are.
C18_AddIdempotent ==
  Resolved("addTag") =>
    \A f \in Files :
      done.call.given[1] \in done.before[f] => tags[f] = done.before[f]

C18_Witness ==
  /\ Resolved("addTag")
  /\ done.call.given = <<<<<<"a">>, <<"a">>>>>>
  /\ "f1" \in done.updated
  /\ done.before["f1"] = {<<<<"a">>, <<"a">>>>}
  /\ tags["f1"] = {<<<<"a">>, <<"a">>>>}

\* C19: the writes to one file are serialized: at most one command of writeTags,
\* addTag, removeTag or replaceTag that targets a given file is in flight.
C19_OneWriteInFlightPerFile ==
  \A f \in Files : Cardinality({call \in inFlight : f \in call.files}) <= 1

\* Two writes in flight at once, each on a file of its own.
C19_Witness ==
  /\ Cardinality(inFlight) = 2
  /\ \E call \in inFlight : call.files = {"f1"}
  /\ \E call \in inFlight : call.files = {"f2"}

\* C20: a write that is not confirmed is not fatal: when the command has
\* resolved with another number of updated files than the call expects (1 in
\* writeTags, files.length in addTag, removeTag and replaceTag), the call has
\* logged and ended without an error, the separator is as it was, and the files
\* are as ExifTool left them: nothing is rolled back.
C20_WriteNotConfirmedIsLogged ==
  (~Resolved("none") /\ Cardinality(done.updated) # Expected(done.call)) =>
    /\ done.logged
    /\ done.error = "none"
    /\ hierarchicalSeparator = StoredOrDefault(localStorage)
    /\ \A f \in Files :
         tags[f] = IF f \in done.updated THEN Applied(done.before[f], done.call.data)
                   ELSE done.before[f]

\* An addTag call on two files of which ExifTool updated one.
C20_Witness ==
  /\ Resolved("addTag")
  /\ done.call.files = {"f1", "f2"}
  /\ done.updated = {"f1"}
  /\ done.logged
  /\ done.error = "none"
  /\ tags["f1"] = done.before["f1"] \cup {done.call.given[1]}
  /\ tags["f2"] = done.before["f2"]

-----------------------------------------------------------------------------
(* Failures of the external tool *)

\* The last readTags call got an error or no entry from ep.readMetadata.
ReadFailed == op = "readTags" /\ splitWith = Unread

\* None of the three fields is in the entry of the file.
NoneOfTheFields == disk = NoFields

\* C21: a failed read is distinguishable from zero tags: when ep.readMetadata
\* reports an error or no entry, readTags ends in an error; an entry with none of
\* the three fields gives the empty list of paths; the two are never the same
\* value.
C21_ReadFailureIsNotZeroTags ==
  /\ ReadFailed => (ret.error # "none" /\ ret # Ok)
  /\ (Converted /\ NoneOfTheFields) => ret = Ok

\* The read of a file without the three fields has failed.
C21_Witness == ReadFailed /\ NoneOfTheFields /\ ret.error = "Error"

\* C22: batch isolation: in an addTag, removeTag or replaceTag call on several
\* files, a file that is not updated does not keep the command from the other
\* files, and the files that were updated are not put back: every updated file
\* has the command applied, every other file is as before, and the call ends
\* without an error.
C22_BatchIsolation ==
  (done.call.name \in {"addTag", "removeTag", "replaceTag"}) =>
    /\ \A f \in done.updated : tags[f] = Applied(done.before[f], done.call.data)
    /\ \A f \in Files \ done.updated : tags[f] = done.before[f]
    /\ done.error = "none"

\* removeTag([a]) on two files that hold [a]: one is updated, the other is not.
C22_Witness ==
  /\ Resolved("removeTag")
  /\ done.call.files = {"f1", "f2"}
  /\ done.call.given = <<<<<<"a">>>>>>
  /\ done.before = [f \in Files |-> {<<<<"a">>>>}]
  /\ done.updated = {"f2"}
  /\ tags = [f \in Files |-> IF f = "f2" THEN {} ELSE {<<<<"a">>>>}]

-----------------------------------------------------------------------------
(* The ExifIO object over its life (SpecProcess) *)

\* C23 as stated: the separator of the ExifIO object is the persisted one, '|'
\* when none is stored: so it is when the object is constructed, so it stays
\* after every setHierarchicalSeparator call, and so it is again after a
\* restart, the persisted one being the last value set.
C23_SeparatorIsThePersistedOne ==
  hierarchicalSeparator = IF localStorage = NoItem THEN <<"|">> ELSE localStorage

\* C28 as stated: ep.open() is invoked only when the process is not open and no
\* open() is pending, so that at most one open() is pending, and ep.close() is
\* invoked only when the process is open.
C28_OpenedAtMostOnce ==
  /\ invoked.open \in {"never", "closed"}
  /\ ep.opening <= 1
  /\ invoked.close \in {"never", "open"}

\* C29 as stated: a readTags call splits with the separator that was configured
\* when it was called, whatever setHierarchicalSeparator did while
\* ep.readMetadata was pending.
C29_SplitsWithSeparatorAtCall == Converted => splitWith = invoked.calledWith

-----------------------------------------------------------------------------
(* The FileStore (SpecStore) *)

\* C24 as stated: when updateFromBackend has replaced fileList, every selected
\* file is an element of the new fileList: the files that were selected in the
\* old list and are not in the new one are selected no more.
C24_SelectionInsideFileList ==
  [][UpdateFromBackend => selection' \subseteq FilesOf(fileList')]_vars

\* C25: index consistency: the index maps id to i exactly when fileList[i].id is
\* id, it has no key for a file that is not in fileList, and get(id) is the file
\* of fileList with that id, or nothing.
C25_IndexConsistency ==
  /\ DOMAIN index = IdsOf(fileList)
  /\ \A id \in FileIds : \A i \in 1..Len(fileList) :
       (id \in DOMAIN index /\ index[id] = i - 1) <=> fileList[i].id = id
  /\ \A id \in FileIds : get(fileList, index, id) = {file \in FilesOf(fileList) : file.id = id}

\* File 1 was shown and selected, and a list of file 2 alone has replaced the list.
C25_Witness ==
  /\ [id |-> 1, latest |-> TRUE] \in selection
  /\ fileList = <<[id |-> 2, latest |-> TRUE]>>
  /\ DOMAIN index = {2}
  /\ index[2] = 0

\* C26: numUntaggedFiles is never negative, and a decrementNumUntaggedFiles call
\* that threw has left it at 0.
C26_UntaggedNeverNegative ==
  /\ numUntaggedFiles >= 0
  /\ (called.name = "decrementNumUntaggedFiles" /\ called.threw) => numUntaggedFiles = 0

\* decrementNumUntaggedFiles has thrown at 0 while files are counted as missing.
C26_Witness ==
  /\ called = StoreCall("decrementNumUntaggedFiles", TRUE)
  /\ numUntaggedFiles = 0
  /\ numMissingFiles >= 1

\* C30 as stated: hideFile is all or nothing: a call that throws leaves the file
\* not broken if it was not, selected if it was, and numMissingFiles as it was; a
\* call that returns has made the file broken and deselected, and numMissingFiles
\* one more.
C30_HideFileAllOrNothing ==
  [][\A file \in ClientFiles :
       hideFile(file) =>
         IF called'.threw
         THEN UNCHANGED <<isBroken, selection, numMissingFiles>>
         ELSE /\ numMissingFiles' = numMissingFiles + 1
              /\ file \in isBroken'
              /\ file \notin selection']_vars

-----------------------------------------------------------------------------
(* ClientTagCollection (SpecCollection) *)

\* C27 as stated: updateFromBackend does not send its changes back: its field
\* updates cause no backend.saveTag call, autoSave is true when it has returned,
\* and a local edit that changes a field afterwards is saved.
C27_UpdateFromBackendNotSentBack ==
  [][/\ UpdateFromBackendTagCollection => (saved' = saved /\ tagCollection'.autoSave)
     /\ (LocalEdit /\ serialize(tagCollection') # serialize(tagCollection))
          => saved'.count = saved.count + 1]_vars

=============================================================================
